---- MODULE Spec2Model ----
(***************************************************************************)
(* FieldRoutes integration server (src/server.js): an Express relay that   *)
(* checks forwarded credentials, validates a few parameters, issues one    *)
(* call to the provider API and reshapes the answer.                       *)
(*                                                                         *)
(* A request moves through the middleware chain of the file, in the order  *)
(* the file registers it: express.json (line 17), the rate limiter (19-25),*)
(* validateCredentials (47-59) on the customer-data routes, the route      *)
(* handler up to its await, the provider's answer, the rest of the handler.*)
(***************************************************************************)
EXTENDS Integers, Sequences, FiniteSets, TLC

(***************************************************************************)
(* Bounds of the model.                                                    *)
(***************************************************************************)
MaxEmailLen == 5
MaxPhoneLen == 2
MaxQueryLen == 3
MaxShortIdLen == 1
MaxRequests == 2
NumConc == 2

(***************************************************************************)
(* Numbers of the program.                                                 *)
(***************************************************************************)
RateMax == 100
ClientTimeout == 10000
IdLenLimit == 100
MinQueryLen == 2
FixedSearchLimit == 10
SearchDefaultLimit == 10
SearchCap == 50
ServicesDefaultLimit == 20
ServicesCap == 100
AppointmentsDefaultLimit == 10
AppointmentsCap == 50
ProbeLimit == 1
DefaultErrorStatus == 500

(***************************************************************************)
(* JavaScript values.  A string is a sequence of characters; the tokens    *)
(* "k1", "s1", ... stand for opaque non-empty pieces of text.              *)
(***************************************************************************)
Undefined == [t |-> "undefined", s |-> <<>>, n |-> 0]
NaN == [t |-> "NaN", s |-> <<>>, n |-> 0]
Str(s) == [t |-> "string", s |-> s, n |-> 0]
Num(n) == [t |-> "number", s |-> <<>>, n |-> n]
Arr(s) == [t |-> "array", s |-> s, n |-> 0]
Obj(s) == [t |-> "object", s |-> s, n |-> 0]
True == [t |-> "true", s |-> <<>>, n |-> 0]

\* ToBoolean: undefined, "", 0 and NaN are falsy; arrays and objects are truthy.
Truthy(v) ==
    CASE v.t = "undefined" -> FALSE
      [] v.t = "NaN" -> FALSE
      [] v.t = "string" -> v.s # <<>>
      [] v.t = "number" -> v.n # 0
      [] OTHER -> TRUE

\* a || b
Or(a, b) == IF Truthy(a) THEN a ELSE b

\* a destructuring default, { x = d }: used only when x is undefined
Default(v, d) == IF v = Undefined THEN d ELSE v

Strings(chars, len) == UNION {[1..k -> chars] : k \in 0..len}

RECURSIVE Repeat(_, _)
Repeat(c, k) == IF k = 0 THEN <<>> ELSE <<c>> \o Repeat(c, k - 1)

(***************************************************************************)
(* Character classes of the regular expressions.                           *)
(***************************************************************************)
WhiteSpace == {" ", "\t", "\n"}
DigitChars == {"0", "1", "2", "3", "4", "5", "6", "7", "8", "9"}
LowerChars == {"a", "b", "c", "d", "e", "f", "g", "h", "i", "j", "k", "l", "m",
               "n", "o", "p", "q", "r", "s", "t", "u", "v", "w", "x", "y", "z"}
UpperChars == {"A", "B", "C", "D", "E", "F", "G", "H", "I", "J", "K", "L", "M",
               "N", "O", "P", "Q", "R", "S", "T", "U", "V", "W", "X", "Y", "Z"}
IdChars == LowerChars \cup UpperChars \cup DigitChars \cup {"-", "_"}

DigitVal ==
    [c \in DigitChars |->
        CASE c = "0" -> 0 [] c = "1" -> 1 [] c = "2" -> 2 [] c = "3" -> 3
          [] c = "4" -> 4 [] c = "5" -> 5 [] c = "6" -> 6 [] c = "7" -> 7
          [] c = "8" -> 8 [] c = "9" -> 9]

\* /^[^\s@]+@[^\s@]+\.[^\s@]+$/.test(email): some "@" at i and some "." at j
\* split the text into three non-empty runs free of white space and "@".
isValidEmail(email) ==
    \E i \in 1..Len(email) : \E j \in 1..Len(email) :
        /\ email[i] = "@"
        /\ email[j] = "."
        /\ 1 < i
        /\ i + 1 < j
        /\ j < Len(email)
        /\ \A k \in 1..Len(email) :
               k # i => email[k] \notin (WhiteSpace \cup {"@"})

\* /^[a-zA-Z0-9-_]+$/.test(id) && id.length > 0 && id.length < 100
isValidCustomerId(id) ==
    /\ Len(id) >= 1
    /\ \A k \in 1..Len(id) : id[k] \in IdChars
    /\ Len(id) > 0
    /\ Len(id) < IdLenLimit

\* phone.replace(/\D/g, '')
IsDigit(c) == c \in DigitChars
cleanPhone(phone) == SelectSeq(phone, IsDigit)

\* String.prototype.trim
RECURSIVE TrimLeft(_)
TrimLeft(s) ==
    IF s # <<>> /\ Head(s) \in WhiteSpace THEN TrimLeft(Tail(s)) ELSE s
RECURSIVE TrimRight(_)
TrimRight(s) ==
    IF s # <<>> /\ s[Len(s)] \in WhiteSpace
    THEN TrimRight(SubSeq(s, 1, Len(s) - 1))
    ELSE s
Trim(s) == TrimRight(TrimLeft(s))

\* ToNumber, as Math.min and Math.max apply it to their arguments: a query
\* value is text; "" is 0, an optionally signed run of digits is its value,
\* any other text is NaN.
RECURSIVE DigitsValue(_)
DigitsValue(s) ==
    IF s = <<>> THEN 0
    ELSE 10 * DigitsValue(SubSeq(s, 1, Len(s) - 1)) + DigitVal[s[Len(s)]]
AllDigits(s) == s # <<>> /\ \A k \in 1..Len(s) : s[k] \in DigitChars
ToNumber(v) ==
    CASE v.t = "number" -> v
      [] v.t = "string" ->
            LET w == Trim(v.s) IN
            IF w = <<>> THEN Num(0)
            ELSE IF AllDigits(w) THEN Num(DigitsValue(w))
            ELSE IF Head(w) = "-" /\ AllDigits(Tail(w))
                 THEN Num(0 - DigitsValue(Tail(w)))
            ELSE IF Head(w) = "+" /\ AllDigits(Tail(w))
                 THEN Num(DigitsValue(Tail(w)))
            ELSE NaN
      [] OTHER -> NaN

MathMin(a, b) ==
    LET x == ToNumber(a)
        y == ToNumber(b)
    IN  IF x = NaN \/ y = NaN THEN NaN
        ELSE IF x.n <= y.n THEN x ELSE y

MathMax(a, b) ==
    LET x == ToNumber(a)
        y == ToNumber(b)
    IN  IF x = NaN \/ y = NaN THEN NaN
        ELSE IF x.n >= y.n THEN x ELSE y

\* JSON.stringify leaves out the members whose value is undefined
Json(obj) == [k \in {f \in DOMAIN obj : obj[f] # Undefined} |-> obj[k]]

(***************************************************************************)
(* State.                                                                  *)
(*   reqs    the requests in flight, one record per connection slot        *)
(*   hits    the rate limiter's count for the caller's address in the      *)
(*           current window                                                *)
(*   served  requests received so far (bounds the run)                     *)
(*   config  FIELDROUTES_CONFIG                                            *)
(*   env     process.env.NODE_ENV                                          *)
(***************************************************************************)
VARIABLES reqs, hits, served, config, env

vars == <<reqs, hits, served, config, env>>

Slots == 1..NumConc

CustomerRoutes ==
    {"email", "phone", "search", "customer", "services", "appointments"}

DefaultBaseURL == <<"https://api.fieldroutes.com/v1">>

NoJson == [k \in {} |-> Undefined]
NoResponse == [status |-> 0, kind |-> "none", json |-> NoJson, text |-> <<>>]
NoClient ==
    [made |-> FALSE, baseURL |-> <<>>, timeout |-> 0,
     headers |-> [Authorization |-> <<>>, XAPISecret |-> <<>>,
                  ContentType |-> <<>>]]
NoData ==
    [field |-> "none", items |-> Undefined, total |-> Undefined,
     message |-> Undefined]
NoReply ==
    [kind |-> "none", hasResponse |-> FALSE, status |-> 0, data |-> NoData,
     message |-> Undefined]
NoHeaders == [k \in {} |-> Undefined]

\* what a caller sends: the route, the two credential headers (under the
\* names apiKey and apiSecret), the path parameter, the query string and the
\* JSON body
NoInput ==
    [route |-> "health", transport |-> "http",
     wire |-> [apiKey |-> Undefined, apiSecret |-> Undefined],
     badJson |-> FALSE, param |-> Undefined, q |-> Undefined,
     limit |-> Undefined, offset |-> Undefined, status |-> Undefined,
     body |-> [apiKey |-> Undefined, apiSecret |-> Undefined,
               baseUrl |-> Undefined]]

Idle ==
    [in |-> NoInput, pc |-> "idle", ran |-> {}, headers |-> NoHeaders,
     client |-> NoClient, calls |-> <<>>, reply |-> NoReply,
     res |-> NoResponse]

\* obj.name, undefined when obj has no such member
Member(obj, name) == IF name \in DOMAIN obj THEN obj[name] ELSE Undefined

(***************************************************************************)
(* req.headers.  Node's HTTP parser lower-cases every header name before   *)
(* Express sees the request; a request object built by hand (a handler     *)
(* driven directly, as a unit test does) carries the names as written.     *)
(***************************************************************************)
ToLowerCase ==
    [n \in {"apiKey", "apiSecret"} |->
        IF n = "apiKey" THEN "apikey" ELSE "apisecret"]

IncomingHeaders(in) ==
    LET sent == Json(in.wire)
    IN  IF in.transport = "http"
        THEN [k \in {ToLowerCase[n] : n \in DOMAIN sent} |->
                 sent[CHOOSE n \in DOMAIN sent : ToLowerCase[n] = k]]
        ELSE sent

(***************************************************************************)
(* Responses.                                                              *)
(***************************************************************************)
\* res.status(code).json(obj)
SendJson(req, code, obj) ==
    [req EXCEPT !.pc = "sent",
                !.res = [status |-> code, kind |-> "json", json |-> Json(obj),
                         text |-> <<>>]]

\* res.status(code).send(text)
SendText(req, code, text) ==
    [req EXCEPT !.pc = "sent",
                !.res = [status |-> code, kind |-> "text", json |-> NoJson,
                         text |-> text]]

\* the provider's body as a value handed on unchanged
ObjOf(data) ==
    Obj(<<data.field>> \o data.items.s \o <<"message">> \o data.message.s)

\* data.name of the provider's body
BodyMember(data, name) ==
    CASE name = "total" -> data.total
      [] name = "message" -> data.message
      [] name = data.field -> data.items
      [] OTHER -> Undefined

(***************************************************************************)
(* createFieldRoutesClient, lines 34-44.                                   *)
(***************************************************************************)
createFieldRoutesClient(apiKey, apiSecret) ==
    [made |-> TRUE,
     baseURL |-> config.baseURL,
     timeout |-> config.timeout,
     headers |-> [Authorization |-> <<"Bearer ">> \o apiKey.s,
                  XAPISecret |-> apiSecret.s,
                  ContentType |-> <<"application/json">>]]

\* client.get(url, { params }): one outbound call, the handler then awaits
ClientGet(req, client, url, params) ==
    [req EXCEPT !.pc = "calling",
                !.client = client,
                !.calls = Append(@, [method |-> "GET", url |-> url,
                                     baseURL |-> client.baseURL,
                                     timeout |-> client.timeout,
                                     headers |-> client.headers,
                                     params |-> Json(params)])]

(***************************************************************************)
(* handleApiError, lines 319-335.                                          *)
(***************************************************************************)
\* mutation: error.status is read where the code reads error.response.status
ErrorStatusOwn(error) == DefaultErrorStatus

ErrorStatus(error) ==
    IF error.hasResponse /\ error.status # 0
    THEN error.status
    ELSE DefaultErrorStatus

ErrorMessage(error, defaultMessage) ==
    Or(IF error.hasResponse THEN error.data.message ELSE Undefined,
       Or(error.message, Str(defaultMessage)))

ErrorDetails(error) ==
    IF env = "development" /\ error.hasResponse
    THEN ObjOf(error.data)
    ELSE Undefined

handleApiError(error, req, defaultMessage) ==
    SendJson([req EXCEPT !.reply = error], ErrorStatus(error),
             [error |-> Str(<<"API Error">>),
              message |-> ErrorMessage(error, defaultMessage),
              details |-> ErrorDetails(error)])

\* an exception raised inside a handler's try block, outside the call
ThrownError(text) ==
    [kind |-> "error", hasResponse |-> FALSE, status |-> 0, data |-> NoData,
     message |-> Str(text)]

(***************************************************************************)
(* The middleware chain.                                                   *)
(***************************************************************************)
\* req.ran records which parts of the chain have handled the request
Step(r, part, req) ==
    reqs' = [reqs EXCEPT ![r] = [req EXCEPT !.ran = @ \cup {part}]]

\* a request arrives on a free connection
Receive(r, inputs) ==
    /\ reqs[r].pc = "idle"
    /\ served < MaxRequests
    /\ \E in \in inputs :
           Step(r, "server", [Idle EXCEPT !.in = in, !.pc = "json",
                                !.headers = IncomingHeaders(in)])
    /\ served' = served + 1
    /\ UNCHANGED <<hits, config, env>>

\* app.use(express.json()), line 17: a body that does not parse is passed to
\* the error-handling middleware
ExpressJson(r) ==
    /\ reqs[r].pc = "json"
    /\ Step(r, "json",
            [reqs[r] EXCEPT
                !.pc = IF reqs[r].in.badJson THEN "error" ELSE "limiter"])
    /\ UNCHANGED <<hits, served, config, env>>

\* app.use((err, req, res, next) => ...), lines 338-344
ErrorMiddleware(r) ==
    /\ reqs[r].pc = "error"
    /\ Step(r, "error",
            SendJson(reqs[r], 500,
                     [error |-> Str(<<"Internal server error">>),
                      message |-> Str(<<"An unexpected error occurred">>)]))
    /\ UNCHANGED <<hits, served, config, env>>

\* rateLimit({ windowMs, max: 100, message }), lines 20-25: the request is
\* counted, and past max the message is sent as the body with status 429
LimiterCount(n) == IF n < RateMax + 1 THEN n + 1 ELSE RateMax + 1

LimiterRejects(count) == count > RateMax

LimiterAdmitted(req) ==
    [req EXCEPT !.pc = IF req.in.route \in CustomerRoutes
                       THEN "auth" ELSE "handler"]

LimiterRejection(req) ==
    SendText(req, 429, <<"Too many requests from this IP">>)

Limiter(r) ==
    /\ reqs[r].pc = "limiter"
    /\ hits' = LimiterCount(hits)
    /\ Step(r, "limiter",
            IF LimiterRejects(hits')
            THEN LimiterRejection(reqs[r])
            ELSE LimiterAdmitted(reqs[r]))
    /\ UNCHANGED <<served, config, env>>

\* windowMs has passed: the limiter forgets the address
WindowReset ==
    /\ hits > 0
    /\ hits' = 0
    /\ UNCHANGED <<reqs, served, config, env>>

\* validateCredentials, lines 47-59
\* mutation: && where the code has ||
CredentialsMissingBoth(apiKey, apiSecret) ==
    ~Truthy(apiKey) /\ ~Truthy(apiSecret)

CredentialsMissing(apiKey, apiSecret) ==
    ~Truthy(apiKey) \/ ~Truthy(apiSecret)

validateCredentials(req) ==
    LET apiKey == Member(req.headers, "apiKey")
        apiSecret == Member(req.headers, "apiSecret")
    IN  IF CredentialsMissing(apiKey, apiSecret)
        THEN SendJson(req, 401,
                      [error |-> Str(<<"Missing API credentials">>),
                       message |-> Str(<<"API key and secret are required">>)])
        ELSE [req EXCEPT !.pc = "handler",
                         !.client = createFieldRoutesClient(apiKey, apiSecret)]

ValidateCredentials(r) ==
    /\ reqs[r].pc = "auth"
    /\ Step(r, "auth", validateCredentials(reqs[r]))
    /\ UNCHANGED <<hits, served, config, env>>

\* the provider answers the pending call, or the call fails
ProviderAnswers(r, replies) ==
    /\ reqs[r].pc = "calling"
    /\ \E reply \in replies :
           Step(r, "provider",
                [reqs[r] EXCEPT !.pc = "resumed", !.reply = reply])
    /\ UNCHANGED <<hits, served, config, env>>

\* the response has gone out and the request is over
Finish(r) ==
    /\ reqs[r].pc = "sent"
    /\ reqs' = [reqs EXCEPT ![r] = Idle]
    /\ UNCHANGED <<hits, served, config, env>>

(***************************************************************************)
(* Route handlers.  Each runs from its start to its await (pc "handler")   *)
(* and from the provider's answer to its response (pc "resumed").          *)
(***************************************************************************)
\* mutation: the total is taken only when the list is there
ListEnvelopeCoupled(data, field) ==
    [success |-> True,
     data |-> Or(BodyMember(data, field), Arr(<<>>)),
     total |-> IF Truthy(BodyMember(data, field))
               THEN Or(BodyMember(data, "total"), Num(0))
               ELSE Num(0)]

\* { success: true, data: response.data.<field> || [], total: ... || 0 }
ListEnvelope(data, field) ==
    [success |-> True,
     data |-> Or(BodyMember(data, field), Arr(<<>>)),
     total |-> Or(BodyMember(data, "total"), Num(0))]

CustomerNotFound(req) ==
    SendJson(req, 404,
             [error |-> Str(<<"Customer not found">>),
              message |-> Str(<<"No customer found with the provided ID">>)])

InvalidCustomerId(req) ==
    SendJson(req, 400,
             [error |-> Str(<<"Invalid customer ID">>),
              message |-> Str(<<"Please provide a valid customer ID">>)])

\* GET /api/customers/search/email/:email, lines 67-94
\* mutation: the pattern test is left out
EmailRejectedLax(email) == ~Truthy(email)

EmailRejected(email) ==
    ~Truthy(email) \/ ~isValidEmail(email.s)

SearchByEmailStart(req) ==
    LET email == req.in.param
    IN  IF EmailRejected(email)
        THEN SendJson(req, 400,
                      [error |-> Str(<<"Invalid email address">>),
                       message |-> Str(<<"Please provide a valid email address">>)])
        ELSE ClientGet(req, req.client, <<"/customers">>,
                       [email |-> email, limit |-> Num(FixedSearchLimit)])

SearchByEmailResume(req) ==
    IF req.reply.kind = "ok"
    THEN SendJson(req, 200, ListEnvelope(req.reply.data, "customers"))
    ELSE handleApiError(req.reply, req,
                        <<"Failed to search customers by email">>)

\* GET /api/customers/search/phone/:phone, lines 97-126
PhoneRejected(phone) == ~Truthy(phone)

SearchByPhoneStart(req) ==
    LET phone == req.in.param
    IN  IF PhoneRejected(phone)
        THEN SendJson(req, 400,
                      [error |-> Str(<<"Phone number required">>),
                       message |-> Str(<<"Please provide a phone number">>)])
        ELSE ClientGet(req, req.client, <<"/customers">>,
                       [phone |-> Str(cleanPhone(phone.s)),
                        limit |-> Num(FixedSearchLimit)])

SearchByPhoneResume(req) ==
    IF req.reply.kind = "ok"
    THEN SendJson(req, 200, ListEnvelope(req.reply.data, "customers"))
    ELSE handleApiError(req.reply, req,
                        <<"Failed to search customers by phone">>)

\* GET /api/customers/search, lines 129-158
QueryRejected(q) ==
    ~Truthy(q) \/ Len(Trim(q.s)) < MinQueryLen

SearchLimit(limit) == MathMin(limit, Num(SearchCap))

SearchOffset(offset) == MathMax(offset, Num(0))

SearchStart(req) ==
    LET q == req.in.q
        limit == Default(req.in.limit, Num(SearchDefaultLimit))
        offset == Default(req.in.offset, Num(0))
    IN  IF Truthy(q) /\ q.t # "string"
        THEN \* q.trim is not a function: caught by the handler's catch
             handleApiError(ThrownError(<<"q.trim is not a function">>), req,
                            <<"Failed to search customers">>)
        ELSE IF QueryRejected(q)
        THEN SendJson(req, 400,
                      [error |-> Str(<<"Invalid search query">>),
                       message |->
                           Str(<<"Search query must be at least 2 characters long">>)])
        ELSE ClientGet(req, req.client, <<"/customers/search">>,
                       [q |-> Str(Trim(q.s)),
                        limit |-> SearchLimit(limit),
                        offset |-> SearchOffset(offset)])

\* mutation: a failed call is tried once more
SearchResumeRetry(req) ==
    IF req.reply.kind = "ok"
    THEN SendJson(req, 200,
                  [k \in {"success", "data", "total", "query"} |->
                      IF k = "query" THEN Str(Trim(req.in.q.s))
                      ELSE ListEnvelope(req.reply.data, "customers")[k]])
    ELSE IF Len(req.calls) < 2
    THEN ClientGet(req, req.client, req.calls[1].url, req.calls[1].params)
    ELSE handleApiError(req.reply, req, <<"Failed to search customers">>)

SearchResume(req) ==
    IF req.reply.kind = "ok"
    THEN SendJson(req, 200,
                  [k \in {"success", "data", "total", "query"} |->
                      IF k = "query" THEN Str(Trim(req.in.q.s))
                      ELSE ListEnvelope(req.reply.data, "customers")[k]])
    ELSE handleApiError(req.reply, req, <<"Failed to search customers">>)

\* GET /api/customers/:id, lines 161-188
IdRejected(id) == ~Truthy(id) \/ ~isValidCustomerId(id.s)

GetCustomerStart(req) ==
    LET id == req.in.param
    IN  IF IdRejected(id)
        THEN InvalidCustomerId(req)
        ELSE ClientGet(req, req.client, <<"/customers/">> \o id.s,
                       [k \in {} |-> Undefined])

GetCustomerResume(req) ==
    IF req.reply.kind = "ok"
    THEN SendJson(req, 200,
                  [success |-> True, data |-> ObjOf(req.reply.data)])
    ELSE IF req.reply.hasResponse /\ req.reply.status = 404
    THEN CustomerNotFound(req)
    ELSE handleApiError(req.reply, req, <<"Failed to fetch customer">>)

\* GET /api/customers/:id/services, lines 191-226
ServicesLimit(limit) == MathMin(limit, Num(ServicesCap))

ServicesOffset(offset) == MathMax(offset, Num(0))

GetServicesStart(req) ==
    LET id == req.in.param
        limit == Default(req.in.limit, Num(ServicesDefaultLimit))
        offset == Default(req.in.offset, Num(0))
    IN  IF IdRejected(id)
        THEN InvalidCustomerId(req)
        ELSE ClientGet(req, req.client,
                       <<"/customers/">> \o id.s \o <<"/services">>,
                       [limit |-> ServicesLimit(limit),
                        offset |-> ServicesOffset(offset),
                        sort |-> Str(<<"date_desc">>)])

\* mutation: the 404 branch of the catch block is left out
GetServicesResumeGeneric(req) ==
    IF req.reply.kind = "ok"
    THEN SendJson(req, 200, ListEnvelope(req.reply.data, "services"))
    ELSE handleApiError(req.reply, req, <<"Failed to fetch service history">>)

GetServicesResume(req) ==
    IF req.reply.kind = "ok"
    THEN SendJson(req, 200, ListEnvelope(req.reply.data, "services"))
    ELSE IF req.reply.hasResponse /\ req.reply.status = 404
    THEN CustomerNotFound(req)
    ELSE handleApiError(req.reply, req, <<"Failed to fetch service history">>)

\* GET /api/customers/:id/appointments, lines 229-263
AppointmentsLimit(limit) == MathMin(limit, Num(AppointmentsCap))

GetAppointmentsStart(req) ==
    LET id == req.in.param
        status == Default(req.in.status, Str(<<"all">>))
        limit == Default(req.in.limit, Num(AppointmentsDefaultLimit))
    IN  IF IdRejected(id)
        THEN InvalidCustomerId(req)
        ELSE ClientGet(req, req.client, <<"/appointments">>,
                       [customer_id |-> id,
                        limit |-> AppointmentsLimit(limit),
                        status |-> IF status # Str(<<"all">>)
                                   THEN status ELSE Undefined])

GetAppointmentsResume(req) ==
    IF req.reply.kind = "ok"
    THEN SendJson(req, 200, ListEnvelope(req.reply.data, "appointments"))
    ELSE handleApiError(req.reply, req, <<"Failed to fetch appointments">>)

\* POST /api/test-credentials, lines 266-306
TestClient(apiKey, apiSecret, baseUrl) ==
    IF Truthy(baseUrl)
    THEN [createFieldRoutesClient(apiKey, apiSecret) EXCEPT !.baseURL = baseUrl.s]
    ELSE createFieldRoutesClient(apiKey, apiSecret)

TestCredentialsStart(req) ==
    LET apiKey == req.in.body.apiKey
        apiSecret == req.in.body.apiSecret
        baseUrl == req.in.body.baseUrl
    IN  IF CredentialsMissing(apiKey, apiSecret)
        THEN SendJson(req, 400,
                      [error |-> Str(<<"Missing credentials">>),
                       message |-> Str(<<"API key and secret are required">>)])
        ELSE ClientGet(req, TestClient(apiKey, apiSecret, baseUrl),
                       <<"/customers">>, [limit |-> Num(ProbeLimit)])

TestCredentialsResume(req) ==
    IF req.reply.kind = "ok"
    THEN SendJson(req, 200,
                  [success |-> True,
                   message |-> Str(<<"Credentials are valid">>),
                   data |-> Obj(<<"connected", "baseUrl">> \o req.client.baseURL)])
    ELSE IF req.reply.hasResponse /\ req.reply.status \in {401, 403}
    THEN SendJson(req, 401,
                  [error |-> Str(<<"Invalid credentials">>),
                   message |->
                       Str(<<"The provided API credentials are invalid">>)])
    ELSE handleApiError(req.reply, req, <<"Failed to test credentials">>)

\* GET /health, lines 62-64
HealthResponse(req) ==
    SendJson(req, 200,
             [status |-> Str(<<"OK">>), timestamp |-> Str(<<"ISO-8601">>)])

\* app.use((req, res) => ...), lines 347-352
NotFoundResponse(req) ==
    SendJson(req, 404,
             [error |-> Str(<<"Not found">>),
              message |-> Str(<<"The requested endpoint was not found">>)])

\* mutation: the override is written to FIELDROUTES_CONFIG
ConfigAfterShared(req) ==
    IF /\ req.in.route = "test"
       /\ req.pc = "handler"
       /\ ~CredentialsMissing(req.in.body.apiKey, req.in.body.apiSecret)
       /\ Truthy(req.in.body.baseUrl)
    THEN [config EXCEPT !.baseURL = req.in.body.baseUrl.s]
    ELSE config

\* FIELDROUTES_CONFIG after a handler has run: no handler assigns to it (the
\* override of lines 278-280 is written to the test client's own defaults)
ConfigAfter(req) == config

SearchByEmail(r) ==
    /\ reqs[r].in.route = "email"
    /\ \/ /\ reqs[r].pc = "handler"
          /\ Step(r, "handler", SearchByEmailStart(reqs[r]))
       \/ /\ reqs[r].pc = "resumed"
          /\ Step(r, "handler", SearchByEmailResume(reqs[r]))
    /\ config' = ConfigAfter(reqs[r])
    /\ UNCHANGED <<hits, served, env>>

SearchByPhone(r) ==
    /\ reqs[r].in.route = "phone"
    /\ \/ /\ reqs[r].pc = "handler"
          /\ Step(r, "handler", SearchByPhoneStart(reqs[r]))
       \/ /\ reqs[r].pc = "resumed"
          /\ Step(r, "handler", SearchByPhoneResume(reqs[r]))
    /\ config' = ConfigAfter(reqs[r])
    /\ UNCHANGED <<hits, served, env>>

Search(r) ==
    /\ reqs[r].in.route = "search"
    /\ \/ /\ reqs[r].pc = "handler"
          /\ Step(r, "handler", SearchStart(reqs[r]))
       \/ /\ reqs[r].pc = "resumed"
          /\ Step(r, "handler", SearchResume(reqs[r]))
    /\ config' = ConfigAfter(reqs[r])
    /\ UNCHANGED <<hits, served, env>>

GetCustomer(r) ==
    /\ reqs[r].in.route = "customer"
    /\ \/ /\ reqs[r].pc = "handler"
          /\ Step(r, "handler", GetCustomerStart(reqs[r]))
       \/ /\ reqs[r].pc = "resumed"
          /\ Step(r, "handler", GetCustomerResume(reqs[r]))
    /\ config' = ConfigAfter(reqs[r])
    /\ UNCHANGED <<hits, served, env>>

GetServices(r) ==
    /\ reqs[r].in.route = "services"
    /\ \/ /\ reqs[r].pc = "handler"
          /\ Step(r, "handler", GetServicesStart(reqs[r]))
       \/ /\ reqs[r].pc = "resumed"
          /\ Step(r, "handler", GetServicesResume(reqs[r]))
    /\ config' = ConfigAfter(reqs[r])
    /\ UNCHANGED <<hits, served, env>>

GetAppointments(r) ==
    /\ reqs[r].in.route = "appointments"
    /\ \/ /\ reqs[r].pc = "handler"
          /\ Step(r, "handler", GetAppointmentsStart(reqs[r]))
       \/ /\ reqs[r].pc = "resumed"
          /\ Step(r, "handler", GetAppointmentsResume(reqs[r]))
    /\ config' = ConfigAfter(reqs[r])
    /\ UNCHANGED <<hits, served, env>>

TestCredentials(r) ==
    /\ reqs[r].in.route = "test"
    /\ \/ /\ reqs[r].pc = "handler"
          /\ Step(r, "handler", TestCredentialsStart(reqs[r]))
       \/ /\ reqs[r].pc = "resumed"
          /\ Step(r, "handler", TestCredentialsResume(reqs[r]))
    /\ config' = ConfigAfter(reqs[r])
    /\ UNCHANGED <<hits, served, env>>

Health(r) ==
    /\ reqs[r].in.route = "health"
    /\ reqs[r].pc = "handler"
    /\ Step(r, "handler", HealthResponse(reqs[r]))
    /\ UNCHANGED <<hits, served, config, env>>

NotFound(r) ==
    /\ reqs[r].in.route = "unmatched"
    /\ reqs[r].pc = "handler"
    /\ Step(r, "handler", NotFoundResponse(reqs[r]))
    /\ UNCHANGED <<hits, served, config, env>>

(***************************************************************************)
(* What the callers and the provider can send.                             *)
(***************************************************************************)
CredentialValues(token) == {Undefined, Str(<<>>), Str(<<token>>)}

AnyCredentials ==
    {[apiKey |-> k, apiSecret |-> x] :
        k \in CredentialValues("k1"), x \in CredentialValues("s1")}

GoodCredentials == [apiKey |-> Str(<<"k1">>), apiSecret |-> Str(<<"s1">>)]

SampleEmail == <<"a", "@", "a", ".", "a">>
Emails ==
    Strings({"a", "@", "."}, MaxEmailLen)
        \cup {[SampleEmail EXCEPT ![k] = c] :
                 k \in 1..Len(SampleEmail), c \in WhiteSpace}
Phones == Strings({"5", "-"}, MaxPhoneLen)
Queries == Strings({"a", " "}, MaxQueryLen)
Ids ==
    Strings({"a", "7", "-", "_", "!"}, MaxShortIdLen)
        \cup {Repeat("a", IdLenLimit - 1), Repeat("a", IdLenLimit)}
LimitTexts ==
    {<<>>, <<"-", "1">>, <<"7">>, <<"5", "0">>, <<"5", "1">>,
     <<"1", "0", "0">>, <<"1", "0", "1">>, <<"x">>}
OffsetTexts == {<<"-", "1">>, <<"7">>, <<"x">>}
StatusTexts == {<<"all">>, <<"scheduled">>}

Optional(texts) == {Undefined} \cup {Str(t) : t \in texts}

\* a path parameter: Express only matches a route when it is not empty; a
\* request object built by hand may lack it
PathParams(transport, texts) ==
    {Str(t) : t \in texts \ {<<>>}}
        \cup (IF transport = "direct" THEN {Undefined, Str(<<>>)} ELSE {})

SampleParam ==
    [route \in CustomerRoutes |->
        CASE route = "email" -> {Str(SampleEmail), Str(<<"a">>)}
          [] route = "phone" -> {Str(<<"5", "-", "5">>)}
          [] route = "search" -> {Undefined}
          [] OTHER -> {Str(<<"a", "7">>), Str(<<"!">>)}]

\* requests that probe the credential check: every combination of the two
\* headers, over HTTP and by hand, with a valid and an invalid parameter
AuthInputsOf(route) ==
    {[NoInput EXCEPT !.route = route, !.transport = tr, !.wire = w,
                     !.param = p, !.q = q] :
        tr \in {"http", "direct"},
        w \in AnyCredentials,
        p \in SampleParam[route],
        q \in IF route = "search"
              THEN {Str(<<"a", "a">>), Str(<<"a">>)} ELSE {Undefined}}

AuthInputs == UNION {AuthInputsOf(route) : route \in CustomerRoutes}

DirectInput(route) ==
    [NoInput EXCEPT !.route = route, !.transport = "direct",
                    !.wire = GoodCredentials]

\* requests that pass the credential check, with the parameters varied
HandlerInputs ==
    {[DirectInput("email") EXCEPT !.param = p] :
        p \in PathParams("direct", Emails)}
    \cup {[DirectInput("phone") EXCEPT !.param = p] :
        p \in PathParams("direct", Phones)}
    \cup {[DirectInput("search") EXCEPT !.q = q] :
        q \in Optional(Queries) \cup {Arr(<<"aa", "bb">>)}}
    \cup {[DirectInput("search") EXCEPT !.q = Str(<<"a", "a">>),
                                        !.limit = l, !.offset = o] :
        l \in Optional(LimitTexts), o \in Optional(OffsetTexts)}
    \cup {[DirectInput("customer") EXCEPT !.param = p] :
        p \in PathParams("direct", Ids)}
    \cup {[DirectInput("services") EXCEPT !.param = p] :
        p \in PathParams("direct", Ids)}
    \cup {[DirectInput("services") EXCEPT !.param = Str(<<"a", "7">>),
                                          !.limit = l, !.offset = o] :
        l \in Optional(LimitTexts), o \in Optional(OffsetTexts)}
    \cup {[DirectInput("appointments") EXCEPT !.param = p] :
        p \in PathParams("direct", Ids)}
    \cup {[DirectInput("appointments") EXCEPT !.param = Str(<<"a", "7">>),
                                              !.limit = l, !.status = x] :
        l \in Optional(LimitTexts), x \in Optional(StatusTexts)}

OtherInputs ==
    {[NoInput EXCEPT !.route = "test",
                     !.body = [apiKey |-> w.apiKey, apiSecret |-> w.apiSecret,
                               baseUrl |-> u]] :
        w \in AnyCredentials, u \in Optional({<<>>, <<"https://u1">>})}
    \cup {[NoInput EXCEPT !.route = route, !.badJson = b] :
        route \in {"health", "unmatched", "test", "customer"},
        b \in BOOLEAN}

Inputs == AuthInputs \cup HandlerInputs \cup OtherInputs

\* the provider's answers: a 2xx body, an error status with a body, or no
\* answer at all (time-out, connection error)
OkReplies ==
    {[kind |-> "ok", hasResponse |-> TRUE, status |-> 200,
      data |-> [field |-> f, items |-> i, total |-> t, message |-> Undefined],
      message |-> Undefined] :
        f \in {"customers", "services", "appointments"},
        i \in {Undefined, Arr(<<"c1", "c2">>)},
        t \in {Undefined, Num(0), Num(3)}}

MessageValues(token) == {Undefined, Str(<<>>), Str(<<token>>)}

ErrorReplies ==
    {[kind |-> "error", hasResponse |-> TRUE, status |-> st,
      data |-> [field |-> "none", items |-> Undefined, total |-> Undefined,
                message |-> m],
      message |-> e] :
        st \in {401, 403, 404, 500},
        m \in MessageValues("provider message"),
        e \in {Str(<<>>), Str(<<"Request failed">>)}}
    \cup {[kind |-> "error", hasResponse |-> FALSE, status |-> 0,
           data |-> NoData, message |-> e] :
        e \in {Str(<<>>), Str(<<"timeout of 10000ms exceeded">>)}}

Replies == OkReplies \cup ErrorReplies

(***************************************************************************)
(* One connection, every kind of request.                                  *)
(***************************************************************************)
Init ==
    /\ reqs = [r \in Slots |-> Idle]
    /\ hits \in {0, RateMax - 1}
    /\ served = 0
    /\ config = [baseURL |-> DefaultBaseURL, timeout |-> ClientTimeout]
    /\ env \in {"development", "production"}

Next ==
    \/ Receive(1, Inputs)
    \/ ExpressJson(1)
    \/ ErrorMiddleware(1)
    \/ Limiter(1)
    \/ WindowReset
    \/ ValidateCredentials(1)
    \/ SearchByEmail(1)
    \/ SearchByPhone(1)
    \/ Search(1)
    \/ GetCustomer(1)
    \/ GetServices(1)
    \/ GetAppointments(1)
    \/ TestCredentials(1)
    \/ Health(1)
    \/ NotFound(1)
    \/ ProviderAnswers(1, Replies)
    \/ Finish(1)

Spec == Init /\ [][Next]_vars

(***************************************************************************)
(* Several connections at once.  Node runs one handler at a time, and a    *)
(* handler gives way at its await, so the steps of the requests in flight  *)
(* interleave at the granularity of the actions above.  Two tenants (k1,   *)
(* k2) call a customer-data route and the credential test, with and        *)
(* without a baseUrl override.                                             *)
(***************************************************************************)
Tenants ==
    {[apiKey |-> Str(<<"k1">>), apiSecret |-> Str(<<"s1">>)],
     [apiKey |-> Str(<<"k2">>), apiSecret |-> Str(<<"s2">>)]}

ConcInputs ==
    {[NoInput EXCEPT !.route = "customer", !.transport = "direct", !.wire = w,
                     !.param = Str(<<"a", "7">>)] : w \in Tenants}
    \cup {[NoInput EXCEPT !.route = "test",
                          !.body = [apiKey |-> w.apiKey,
                                    apiSecret |-> w.apiSecret,
                                    baseUrl |-> u]] :
             w \in Tenants, u \in Optional({<<"https://u1">>})}

ConcReplies ==
    {x \in Replies :
        /\ x.data.field \in {"customers", "none"}
        /\ x.data.items # Undefined \/ x.kind = "error"
        /\ x.data.total \in {Undefined, Num(3)}
        /\ x.status \in {200, 401}
        /\ x.data.message = Undefined
        /\ x.message \in {Undefined, Str(<<"Request failed">>)}}

InitConc ==
    /\ reqs = [r \in Slots |-> Idle]
    /\ hits = 0
    /\ served = 0
    /\ config = [baseURL |-> DefaultBaseURL, timeout |-> ClientTimeout]
    /\ env = "production"

NextConc ==
    \E r \in Slots :
        \/ Receive(r, ConcInputs)
        \/ ExpressJson(r)
        \/ Limiter(r)
        \/ ValidateCredentials(r)
        \/ GetCustomer(r)
        \/ TestCredentials(r)
        \/ ProviderAnswers(r, ConcReplies)
        \/ Finish(r)

SpecConc == InitConc /\ [][NextConc]_vars

(***************************************************************************)
(* Properties.                                                             *)
(***************************************************************************)

\* C1: a request dispatched to a customer-data route without the apiKey or
\* without the apiSecret header is answered 401 {error: "Missing API
\* credentials", message: "API key and secret are required"}, and no call to
\* the provider is ever made for it, whatever its other inputs are.
C1_MissingCredentialsRejected ==
    \A r \in Slots :
        LET q == reqs[r] IN
        (/\ q.in.route \in CustomerRoutes
         /\ q.in.wire.apiKey = Undefined \/ q.in.wire.apiSecret = Undefined)
        => /\ q.calls = <<>>
           /\ "auth" \in q.ran =>
                 /\ q.pc = "sent"
                 /\ q.res.status = 401
                 /\ q.res.kind = "json"
                 /\ q.res.json =
                        [error |-> Str(<<"Missing API credentials">>),
                         message |-> Str(<<"API key and secret are required">>)]

C1_Witness ==
    \E r \in Slots :
        LET q == reqs[r] IN
        /\ q.in.route = "customer"
        /\ q.in.transport = "direct"
        /\ q.in.wire.apiKey = Undefined
        /\ q.in.wire.apiSecret = Str(<<"s1">>)
        /\ q.in.param = Str(<<"a", "7">>)
        /\ "auth" \in q.ran
        /\ q.res.status = 401

\* C2: a request to a customer-data route that carries both an apiKey and an
\* apiSecret HTTP header is not answered 401 by validateCredentials: a client
\* whose auth headers are those two values is attached to it and the route
\* handler runs.
C2_SuppliedCredentialsAccepted ==
    \A r \in Slots :
        LET q == reqs[r] IN
        (/\ q.in.route \in CustomerRoutes
         /\ q.in.transport = "http"
         /\ Truthy(q.in.wire.apiKey)
         /\ Truthy(q.in.wire.apiSecret)
         /\ "auth" \in q.ran)
        => /\ q.res.status # 401
           /\ q.client.made
           /\ q.client.headers.Authorization
                  = <<"Bearer ">> \o q.in.wire.apiKey.s
           /\ q.client.headers.XAPISecret = q.in.wire.apiSecret.s

\* C3: when a route's input validator rejects the request (an email that
\* does not match the pattern, an absent phone, a query whose trimmed length
\* is under 2, an id that fails the id check), the handler answers 400 with
\* the route's own error and the provider is never called for that request.
C3_RejectedInputNeverReachesProvider ==
    \A r \in Slots :
        LET q == reqs[r]
            in == q.in
            isText == in.param.t = "string"
            rejected ==
                CASE in.route = "email" -> ~isText \/ ~isValidEmail(in.param.s)
                  [] in.route = "phone" -> in.param = Undefined
                  [] in.route = "search" ->
                        \/ in.q = Undefined
                        \/ in.q.t = "string" /\ Len(Trim(in.q.s)) < 2
                  [] in.route \in {"customer", "services", "appointments"} ->
                        ~isText \/ ~isValidCustomerId(in.param.s)
                  [] OTHER -> FALSE
            label ==
                CASE in.route = "email" -> <<"Invalid email address">>
                  [] in.route = "phone" -> <<"Phone number required">>
                  [] in.route = "search" -> <<"Invalid search query">>
                  [] OTHER -> <<"Invalid customer ID">>
        IN  rejected =>
                /\ q.calls = <<>>
                /\ "handler" \in q.ran =>
                       /\ q.pc = "sent"
                       /\ q.res.status = 400
                       /\ q.res.kind = "json"
                       /\ q.res.json["error"] = Str(label)

C3_Witness ==
    \E r \in Slots :
        LET q == reqs[r] IN
        /\ q.in.route = "email"
        /\ q.in.param = Str(<<"a", "@", "a", "a", ".">>)
        /\ "handler" \in q.ran
        /\ q.res.status = 400
        /\ q.calls = <<>>

\* C4: every call the free-text search, fetch-services and fetch-appointments
\* handlers make carries a limit that is a number from 0 to the route's cap
\* (50, 100, 50) and, where it carries an offset, an offset that is a number
\* not below 0, whatever limit and offset the caller supplied.
C4_PagingClamped ==
    \A r \in Slots :
        LET q == reqs[r]
            cap == CASE q.in.route = "search" -> 50
                     [] q.in.route = "services" -> 100
                     [] OTHER -> 50
        IN  q.in.route \in {"search", "services", "appointments"} =>
                \A i \in DOMAIN q.calls :
                    LET params == q.calls[i].params IN
                    /\ "limit" \in DOMAIN params
                    /\ params["limit"].t = "number"
                    /\ params["limit"].n >= 0
                    /\ params["limit"].n <= cap
                    /\ "offset" \in DOMAIN params =>
                           /\ params["offset"].t = "number"
                           /\ params["offset"].n >= 0

\* C5: a request that passes credential and input validation issues exactly
\* one call to the provider, on all six customer-data routes and on the
\* credential test, whether the call succeeds, fails with a status or fails
\* without an answer; no request ever has a second call.
C5_ExactlyOneCall ==
    \A r \in Slots :
        LET q == reqs[r]
            in == q.in
            isText == in.param.t = "string"
            valid ==
                CASE in.route = "email" -> isText /\ isValidEmail(in.param.s)
                  [] in.route = "phone" -> isText /\ in.param.s # <<>>
                  [] in.route = "search" ->
                        in.q.t = "string" /\ Len(Trim(in.q.s)) >= 2
                  [] in.route \in {"customer", "services", "appointments"} ->
                        isText /\ isValidCustomerId(in.param.s)
                  [] in.route = "test" ->
                        Truthy(in.body.apiKey) /\ Truthy(in.body.apiSecret)
                  [] OTHER -> FALSE
        IN  /\ Len(q.calls) <= 1
            /\ q.pc \in {"calling", "resumed"} => Len(q.calls) = 1
            /\ (valid /\ "handler" \in q.ran) => Len(q.calls) = 1

C5_Witness ==
    \E r \in Slots :
        LET q == reqs[r] IN
        /\ q.in.route = "search"
        /\ q.pc = "sent"
        /\ q.reply.kind = "error"
        /\ q.reply.hasResponse
        /\ q.reply.status = 500
        /\ Len(q.calls) = 1

\* C6: after a failed call, a provider 404 on fetch-by-id and fetch-services
\* is answered 404 {error: "Customer not found", message: "No customer found
\* with the provided ID"}; a provider 401 or 403 on the credential test is
\* answered 401 with error "Invalid credentials"; every other failure, on
\* every route, is answered with error "API Error".
C6_FailureMapping ==
    \A r \in Slots :
        LET q == reqs[r]
            e == q.reply
        IN  (q.pc = "sent" /\ "provider" \in q.ran /\ e.kind = "error") =>
                /\ q.res.kind = "json"
                /\ IF q.in.route \in {"customer", "services"}
                      /\ e.hasResponse /\ e.status = 404
                   THEN /\ q.res.status = 404
                        /\ q.res.json =
                               [error |-> Str(<<"Customer not found">>),
                                message |->
                                    Str(<<"No customer found with the provided ID">>)]
                   ELSE IF q.in.route = "test"
                           /\ e.hasResponse /\ e.status \in {401, 403}
                   THEN /\ q.res.status = 401
                        /\ q.res.json["error"] = Str(<<"Invalid credentials">>)
                   ELSE q.res.json["error"] = Str(<<"API Error">>)

C6_Witness ==
    \E r \in Slots :
        LET q == reqs[r] IN
        /\ q.in.route = "services"
        /\ q.pc = "sent"
        /\ q.reply.kind = "error"
        /\ q.reply.hasResponse
        /\ q.reply.status = 404
        /\ q.res.status = 404

\* C7 (as stated): for every error handed to handleApiError the status is the
\* provider's status when the error carries a provider response and 500
\* otherwise; the message is the provider body's message field when the body
\* has one, otherwise the error's own message when it has one, otherwise the
\* route's default; the error field is "API Error".
C7_NormalizerAsStated ==
    \A r \in Slots :
        LET q == reqs[r]
            e == q.reply
            special ==
                \/ q.in.route \in {"customer", "services"}
                      /\ e.hasResponse /\ e.status = 404
                \/ q.in.route = "test"
                      /\ e.hasResponse /\ e.status \in {401, 403}
            default ==
                CASE q.in.route = "email" ->
                        <<"Failed to search customers by email">>
                  [] q.in.route = "phone" ->
                        <<"Failed to search customers by phone">>
                  [] q.in.route = "search" -> <<"Failed to search customers">>
                  [] q.in.route = "customer" -> <<"Failed to fetch customer">>
                  [] q.in.route = "services" ->
                        <<"Failed to fetch service history">>
                  [] q.in.route = "appointments" ->
                        <<"Failed to fetch appointments">>
                  [] OTHER -> <<"Failed to test credentials">>
        IN  (q.pc = "sent" /\ "handler" \in q.ran /\ e.kind = "error"
                /\ ~special) =>
                /\ q.res.status = IF e.hasResponse THEN e.status ELSE 500
                /\ q.res.json["error"] = Str(<<"API Error">>)
                /\ q.res.json["message"] =
                       IF e.hasResponse /\ e.data.message # Undefined
                       THEN e.data.message
                       ELSE IF e.message.s # <<>> THEN e.message
                       ELSE Str(default)

\* C7 (amended): as above, but the provider body's message is used only when
\* it is present and not empty; an empty one is passed over like an absent
\* one.
C7_Normalizer ==
    \A r \in Slots :
        LET q == reqs[r]
            e == q.reply
            special ==
                \/ q.in.route \in {"customer", "services"}
                      /\ e.hasResponse /\ e.status = 404
                \/ q.in.route = "test"
                      /\ e.hasResponse /\ e.status \in {401, 403}
            default ==
                CASE q.in.route = "email" ->
                        <<"Failed to search customers by email">>
                  [] q.in.route = "phone" ->
                        <<"Failed to search customers by phone">>
                  [] q.in.route = "search" -> <<"Failed to search customers">>
                  [] q.in.route = "customer" -> <<"Failed to fetch customer">>
                  [] q.in.route = "services" ->
                        <<"Failed to fetch service history">>
                  [] q.in.route = "appointments" ->
                        <<"Failed to fetch appointments">>
                  [] OTHER -> <<"Failed to test credentials">>
        IN  (q.pc = "sent" /\ "handler" \in q.ran /\ e.kind = "error"
                /\ ~special) =>
                /\ q.res.status = IF e.hasResponse THEN e.status ELSE 500
                /\ q.res.json["error"] = Str(<<"API Error">>)
                /\ q.res.json["message"] =
                       IF e.hasResponse /\ e.data.message.s # <<>>
                       THEN e.data.message
                       ELSE IF e.message.s # <<>> THEN e.message
                       ELSE Str(default)

C7_Witness ==
    \E r \in Slots :
        LET q == reqs[r] IN
        /\ q.in.route = "appointments"
        /\ q.pc = "sent"
        /\ q.reply.kind = "error"
        /\ q.reply.hasResponse
        /\ q.reply.status = 404
        /\ q.reply.data.message = Str(<<>>)
        /\ q.res.status = 404
        /\ q.res.json["message"] = Str(<<"Request failed">>)

\* C8: every error response the server sends (missing credentials, rejected
\* input, not found, invalid credentials, provider error, unmatched route,
\* uncaught exception, rate-limit rejection) is a flat JSON object with an
\* error and a message field, optionally details, and no stack trace.
C8_ErrorEnvelope ==
    \A r \in Slots :
        LET q == reqs[r] IN
        (q.pc = "sent" /\ q.res.status >= 400) =>
            /\ q.res.kind = "json"
            /\ {"error", "message"} \subseteq DOMAIN q.res.json
            /\ DOMAIN q.res.json \subseteq {"error", "message", "details"}
            /\ \A k \in DOMAIN q.res.json \ {"details"} :
                   q.res.json[k].t = "string"

\* C9: in every interleaving of the requests in flight, each call to the
\* provider carries the auth headers and the base URL of the request that
\* issued it: the base URL is the configured one, or the issuing
\* credential-test request's own override, and FIELDROUTES_CONFIG is never
\* changed by any request.
C9_CallsBelongToTheirRequest ==
    /\ config = [baseURL |-> DefaultBaseURL, timeout |-> ClientTimeout]
    /\ \A r \in Slots :
           LET q == reqs[r]
               own == IF q.in.route = "test" THEN q.in.body ELSE q.in.wire
               base == IF q.in.route = "test" /\ q.in.body.baseUrl.s # <<>>
                       THEN q.in.body.baseUrl.s
                       ELSE DefaultBaseURL
           IN  \A i \in DOMAIN q.calls :
                   /\ q.calls[i].headers.Authorization
                          = <<"Bearer ">> \o own.apiKey.s
                   /\ q.calls[i].headers.XAPISecret = own.apiSecret.s
                   /\ q.calls[i].baseURL = base

\* two tenants in flight at once: a credential test that has called its
\* override, and a customer fetch that was admitted and called afterwards
C9_Witness ==
    \E r1 \in Slots : \E r2 \in Slots :
        /\ reqs[r1].in.route = "test"
        /\ reqs[r1].in.body.apiKey = Str(<<"k1">>)
        /\ reqs[r1].in.body.baseUrl = Str(<<"https://u1">>)
        /\ reqs[r1].pc = "resumed"
        /\ reqs[r1].calls # <<>>
        /\ reqs[r2].in.route = "customer"
        /\ reqs[r2].in.wire.apiKey = Str(<<"k2">>)
        /\ reqs[r2].pc = "calling"
        /\ reqs[r2].calls # <<>>
        /\ hits = 2

\* C10 (as stated): on the three search routes, after a successful answer:
\* when the body has customers and total, the response has success true,
\* data equal to customers and total equal to total; when the body has no
\* customers, the response has data [] and total 0.
C10_SearchEnvelopeAsStated ==
    \A r \in Slots :
        LET q == reqs[r]
            customers == BodyMember(q.reply.data, "customers")
            total == BodyMember(q.reply.data, "total")
        IN  (/\ q.in.route \in {"email", "phone", "search"}
             /\ q.pc = "sent"
             /\ q.reply.kind = "ok") =>
                /\ q.res.status = 200
                /\ q.res.json["success"] = True
                /\ (customers # Undefined /\ total # Undefined) =>
                       /\ q.res.json["data"] = customers
                       /\ q.res.json["total"] = total
                /\ customers = Undefined =>
                       /\ q.res.json["data"] = Arr(<<>>)
                       /\ q.res.json["total"] = Num(0)

\* C10 (amended): the two fields default separately: data is the body's
\* customers, or [] when the body has none; total is the body's total, or 0
\* when the body has none.
C10_SearchEnvelope ==
    \A r \in Slots :
        LET q == reqs[r]
            customers == BodyMember(q.reply.data, "customers")
            total == BodyMember(q.reply.data, "total")
        IN  (/\ q.in.route \in {"email", "phone", "search"}
             /\ q.pc = "sent"
             /\ q.reply.kind = "ok") =>
                /\ q.res.status = 200
                /\ q.res.json["success"] = True
                /\ q.res.json["data"] =
                       IF customers # Undefined THEN customers ELSE Arr(<<>>)
                /\ q.res.json["total"] =
                       IF total # Undefined THEN total ELSE Num(0)

C10_Witness ==
    \E r \in Slots :
        LET q == reqs[r] IN
        /\ q.in.route = "phone"
        /\ q.pc = "sent"
        /\ q.reply.kind = "ok"
        /\ q.reply.data.field = "services"
        /\ q.reply.data.total = Num(3)
        /\ q.res.json["data"] = Arr(<<>>)
        /\ q.res.json["total"] = Num(3)
====
